---- MODULE Spec2Model ----
(***************************************************************************)
(* DOM Components: the "use dom" Babel directive plugin                    *)
(* (packages/babel-preset-expo/src/use-dom-directive-plugin.ts) and the    *)
(* dev-server middleware that serves a generated entry module for a        *)
(* DOM component (createDomComponentsMiddleware).                          *)
(*                                                                         *)
(* Strings of the program are sequences of one-character strings, so that  *)
(* startsWith, slicing, splitting and percent-encoding are computed.       *)
(* Fixed template texts (HTML, module source) are single long elements.    *)
(***************************************************************************)
EXTENDS Integers, Sequences, FiniteSets, TLC

(***************************************************************************)
(* Bounds                                                                  *)
(***************************************************************************)
\* number of HTTP requests that may be in flight or finished
MaxRequests == 2

Requests == 1..MaxRequests

\* the time that passes in one step of the clock, in ms
TickMs == 1000

\* the settling interval of the entry generator, in ms (setTimeout(res, 1000))
SettlingMs == 1000

(***************************************************************************)
(* JavaScript values                                                       *)
(***************************************************************************)
\* null (URLSearchParams.get of an absent key) and undefined (no filename)
Null == <<"NULL">>
Undefined == <<"UNDEFINED">>

\* string concatenation with a possibly-null operand: '' + null is "null"
ToStr(v) ==
  IF v = Null THEN <<"n", "u", "l", "l">>
  ELSE IF v = Undefined THEN <<"u", "n", "d", "e", "f", "i", "n", "e", "d">>
  ELSE v

\* String.prototype.startsWith
StartsWith(s, pre) ==
  /\ Len(s) >= Len(pre)
  /\ SubSeq(s, 1, Len(pre)) = pre

\* String.prototype.slice(n)
Slice(s, n) == SubSeq(s, n + 1, Len(s))

\* index of the first occurrence of character c in s, 0 if there is none
IndexOf(s, c) ==
  IF \E i \in 1..Len(s) : s[i] = c
  THEN CHOOSE i \in 1..Len(s) : s[i] = c /\ \A j \in 1..(i - 1) : s[j] # c
  ELSE 0

\* index of the last occurrence of character c in s, 0 if there is none
LastIndexOf(s, c) ==
  IF \E i \in 1..Len(s) : s[i] = c
  THEN CHOOSE i \in 1..Len(s) : s[i] = c /\ \A j \in (i + 1)..Len(s) : s[j] # c
  ELSE 0

\* String.prototype.split(c): the pieces between occurrences of c
RECURSIVE Split(_, _)
Split(s, c) ==
  LET i == IndexOf(s, c) IN
  IF i = 0 THEN <<s>>
  ELSE <<SubSeq(s, 1, i - 1)>> \o Split(Slice(s, i), c)

\* Array.prototype.join(c)
RECURSIVE Join(_, _)
Join(parts, c) ==
  IF Len(parts) = 0 THEN <<>>
  ELSE IF Len(parts) = 1 THEN parts[1]
  ELSE parts[1] \o <<c>> \o Join(Tail(parts), c)

\* the non-empty elements of a sequence of strings
RECURSIVE NonEmptyParts(_)
NonEmptyParts(parts) ==
  IF Len(parts) = 0 THEN <<>>
  ELSE IF Head(parts) = <<>> THEN NonEmptyParts(Tail(parts))
  ELSE <<Head(parts)>> \o NonEmptyParts(Tail(parts))

(***************************************************************************)
(* Literals of the source                                                  *)
(***************************************************************************)
\* 'file://'
FileScheme == <<"f", "i", "l", "e", ":", "/", "/">>
\* '/_expo/@dom'
DomPrefix == <<"/", "_", "e", "x", "p", "o", "/", "@", "d", "o", "m">>
\* '.expo/@dom'
ExpoDomDir == <<".", "e", "x", "p", "o", "/", "@", "d", "o", "m">>
\* '.js'
DotJs == <<".", "j", "s">>
\* 'file'
FileKey == <<"f", "i", "l", "e">>
\* 'www.bundle/'
WwwBundle == <<"w", "w", "w", ".", "b", "u", "n", "d", "l", "e", "/">>
\* 'www/'
WwwDir == <<"w", "w", "w", "/">>
\* '.html'
DotHtml == <<".", "h", "t", "m", "l">>
\* "file:///android_asset"
AndroidAsset == FileScheme \o <<"/", "a", "n", "d", "r", "o", "i", "d", "_", "a", "s", "s", "e", "t">>
\* 'Invalid file path: '
InvalidFilePath == <<"Invalid file path: ">>

(***************************************************************************)
(* crypto.createHash('sha1').update(s).digest('hex')                       *)
(*                                                                         *)
(* The digest is abstracted by a collision-free hex digest: the hex        *)
(* encoding of the bytes of its input.  What the model keeps of sha1 is    *)
(* that it is a function of the input string alone, that its output is a   *)
(* string of hex digits, and that different inputs give different outputs. *)
(***************************************************************************)
HexByte(c) ==
  CASE c = "/" -> <<"2", "f">>
    [] c = "." -> <<"2", "e">>
    [] c = ":" -> <<"3", "a">>
    [] c = "%" -> <<"2", "5">>
    [] c = "@" -> <<"4", "0">>
    [] c = "_" -> <<"5", "f">>
    [] c = "-" -> <<"2", "d">>
    [] c = "#" -> <<"2", "3">>
    [] c = " " -> <<"2", "0">>
    [] c = "?" -> <<"3", "f">>
    [] c = "=" -> <<"3", "d">>
    [] c = "&" -> <<"2", "6">>
    [] c = "+" -> <<"2", "b">>
    [] c = "\"" -> <<"2", "2">>
    [] c = "0" -> <<"3", "0">>
    [] c = "1" -> <<"3", "1">>
    [] c = "2" -> <<"3", "2">>
    [] c = "3" -> <<"3", "3">>
    [] c = "4" -> <<"3", "4">>
    [] c = "5" -> <<"3", "5">>
    [] c = "6" -> <<"3", "6">>
    [] c = "7" -> <<"3", "7">>
    [] c = "8" -> <<"3", "8">>
    [] c = "9" -> <<"3", "9">>
    [] c = "a" -> <<"6", "1">>
    [] c = "b" -> <<"6", "2">>
    [] c = "c" -> <<"6", "3">>
    [] c = "d" -> <<"6", "4">>
    [] c = "e" -> <<"6", "5">>
    [] c = "f" -> <<"6", "6">>
    [] c = "g" -> <<"6", "7">>
    [] c = "h" -> <<"6", "8">>
    [] c = "i" -> <<"6", "9">>
    [] c = "j" -> <<"6", "a">>
    [] c = "k" -> <<"6", "b">>
    [] c = "l" -> <<"6", "c">>
    [] c = "m" -> <<"6", "d">>
    [] c = "n" -> <<"6", "e">>
    [] c = "o" -> <<"6", "f">>
    [] c = "p" -> <<"7", "0">>
    [] c = "q" -> <<"7", "1">>
    [] c = "r" -> <<"7", "2">>
    [] c = "s" -> <<"7", "3">>
    [] c = "t" -> <<"7", "4">>
    [] c = "u" -> <<"7", "5">>
    [] c = "v" -> <<"7", "6">>
    [] c = "w" -> <<"7", "7">>
    [] c = "x" -> <<"7", "8">>
    [] c = "y" -> <<"7", "9">>
    [] c = "z" -> <<"7", "a">>
    [] c = "W" -> <<"5", "7">>
    [] c = "A" -> <<"4", "1">>
    [] c = "B" -> <<"4", "2">>
    [] c = "C" -> <<"4", "3">>
    [] c = "D" -> <<"4", "4">>
    [] c = "E" -> <<"4", "5">>
    [] c = "F" -> <<"4", "6">>

RECURSIVE Hash(_)
Hash(s) ==
  IF Len(s) = 0 THEN <<>>
  ELSE HexByte(Head(s)) \o Hash(Tail(s))

(***************************************************************************)
(* Node's posix path module                                                *)
(***************************************************************************)
\* the working directory of the dev server process
Cwd == <<"/", "p">>

IsAbsolute(p) == Len(p) > 0 /\ p[1] = "/"

\* resolve "." and ".." in a list of segments
RECURSIVE NormalizeSegments(_, _)
NormalizeSegments(todo, done) ==
  IF Len(todo) = 0 THEN done
  ELSE LET seg == Head(todo) IN
    IF seg = <<>> \/ seg = <<".">> THEN NormalizeSegments(Tail(todo), done)
    ELSE IF seg = <<".", ".">> /\ Len(done) > 0 /\ done[Len(done)] # <<".", ".">>
      THEN NormalizeSegments(Tail(todo), SubSeq(done, 1, Len(done) - 1))
    ELSE NormalizeSegments(Tail(todo), Append(done, seg))

\* the normalised segments of path.resolve(p)
ResolvedSegments(p) ==
  NormalizeSegments(Split(IF IsAbsolute(p) THEN p ELSE Cwd \o <<"/">> \o p, "/"), <<>>)

\* path.join(a, b, c) for an absolute a
PathJoin(a, b, c) ==
  <<"/">> \o Join(NormalizeSegments(Split(a \o <<"/">> \o b \o <<"/">> \o c, "/"), <<>>), "/")

\* strip trailing slashes, keeping a lone "/"
RECURSIVE StripTrailingSlashes(_)
StripTrailingSlashes(p) ==
  IF Len(p) > 1 /\ p[Len(p)] = "/" THEN StripTrailingSlashes(SubSeq(p, 1, Len(p) - 1))
  ELSE p

\* path.dirname
PathDirname(p) ==
  LET q == StripTrailingSlashes(p)
      i == LastIndexOf(q, "/")
  IN IF i = 0 THEN <<".">>
     ELSE IF i = 1 THEN <<"/">>
     ELSE StripTrailingSlashes(SubSeq(q, 1, i - 1))

\* path.basename
PathBasename(p) ==
  LET q == StripTrailingSlashes(p)
      i == LastIndexOf(q, "/")
  IN IF q = <<"/">> THEN <<>> ELSE Slice(q, i)

\* length of the longest common prefix of two segment lists
RECURSIVE CommonPrefixLen(_, _)
CommonPrefixLen(a, b) ==
  IF Len(a) = 0 \/ Len(b) = 0 \/ Head(a) # Head(b) THEN 0
  ELSE 1 + CommonPrefixLen(Tail(a), Tail(b))

\* path.relative(from, to)
PathRelative(from, to) ==
  LET f == ResolvedSegments(from)
      t == ResolvedSegments(to)
      k == CommonPrefixLen(f, t)
      ups == [i \in 1..(Len(f) - k) |-> <<".", ".">>]
  IN Join(ups \o SubSeq(t, k + 1, Len(t)), "/")

(***************************************************************************)
(* Percent-encoding, file URLs and request URLs                            *)
(***************************************************************************)
\* the characters that a URL path may not hold literally, with their escapes
Escaped == {" ", "%", "#", "?", "\""}

EscapeOf(c) ==
  CASE c = " " -> <<"%", "2", "0">>
    [] c = "%" -> <<"%", "2", "5">>
    [] c = "#" -> <<"%", "2", "3">>
    [] c = "?" -> <<"%", "3", "F">>
    [] c = "\"" -> <<"%", "2", "2">>

\* percent-encode the characters of a path
RECURSIVE PercentEncode(_)
PercentEncode(s) ==
  IF Len(s) = 0 THEN <<>>
  ELSE (IF Head(s) \in Escaped THEN EscapeOf(Head(s)) ELSE <<Head(s)>>)
       \o PercentEncode(Tail(s))

\* percent-decode: every escape sequence becomes its character
RECURSIVE PercentDecode(_)
PercentDecode(s) ==
  IF Len(s) = 0 THEN <<>>
  ELSE IF Len(s) >= 3 /\ \E c \in Escaped : SubSeq(s, 1, 3) = EscapeOf(c)
    THEN <<CHOOSE c \in Escaped : SubSeq(s, 1, 3) = EscapeOf(c)>>
         \o PercentDecode(Slice(s, 3))
  ELSE <<Head(s)>> \o PercentDecode(Tail(s))

\* application/x-www-form-urlencoded: "+" is a space
RECURSIVE PlusToSpace(_)
PlusToSpace(s) ==
  IF Len(s) = 0 THEN <<>>
  ELSE <<IF Head(s) = "+" THEN " " ELSE Head(s)>> \o PlusToSpace(Tail(s))

\* url.pathToFileURL(filePath).href
PathToFileURL(filePath) ==
  FileScheme \o PercentEncode(<<"/">> \o Join(ResolvedSegments(filePath), "/"))

\* fileURLToFilePath(file) of ../metro/createServerComponentsMiddleware:
\* the file-system path that a file:// URL names
FileURLToFilePath(file) == PercentDecode(Slice(file, Len(FileScheme)))

\* 'http://'
HttpScheme == <<"h", "t", "t", "p", ":", "/", "/">>

\* coerceUrl(url): the part of the parsed URL after its origin.  An absolute
\* URL parses as it is; anything else is parsed relative to
\* https://localhost:0, of which only the path and the query are used.
coerceUrl(url) ==
  IF StartsWith(url, HttpScheme)
  THEN LET rest == Slice(url, Len(HttpScheme))
           i == IndexOf(rest, "/")
       IN IF i = 0 THEN <<"/">> ELSE Slice(rest, i - 1)
  ELSE IF IsAbsolute(url) THEN url
  ELSE <<"/">> \o url

\* a URL without its fragment
WithoutFragment(u) ==
  LET i == IndexOf(u, "#") IN IF i = 0 THEN u ELSE SubSeq(u, 1, i - 1)

\* url.pathname
Pathname(u) ==
  LET v == WithoutFragment(u)
      i == IndexOf(v, "?")
  IN IF i = 0 THEN v ELSE SubSeq(v, 1, i - 1)

\* url.search without its "?"
Query(u) ==
  LET v == WithoutFragment(u)
      i == IndexOf(v, "?")
  IN IF i = 0 THEN <<>> ELSE Slice(v, i)

\* the name and the value of one name=value pair of a query
PairName(pair) ==
  LET i == IndexOf(pair, "=") IN
  PercentDecode(PlusToSpace(IF i = 0 THEN pair ELSE SubSeq(pair, 1, i - 1)))

PairValue(pair) ==
  LET i == IndexOf(pair, "=") IN
  PercentDecode(PlusToSpace(IF i = 0 THEN <<>> ELSE Slice(pair, i)))

\* url.searchParams.get(key): the value of the first pair named key, or null
SearchParamsGet(u, key) ==
  LET pairs == NonEmptyParts(Split(Query(u), "&"))
      hits == {i \in 1..Len(pairs) : PairName(pairs[i]) = key}
  IN IF hits = {} THEN Null
     ELSE PairValue(pairs[CHOOSE i \in hits : \A j \in hits : i <= j])

(***************************************************************************)
(* JavaScript objects: functions from the keys that are present            *)
(***************************************************************************)
\* { ...a, ...b }: the keys of both, b's value where both have the key
Spread(a, b) ==
  [k \in (DOMAIN a) \cup (DOMAIN b) |-> IF k \in DOMAIN b THEN b[k] ELSE a[k]]

\* JSON.stringify of a string
RECURSIVE JsonEscape(_)
JsonEscape(s) ==
  IF Len(s) = 0 THEN <<>>
  ELSE (IF Head(s) = "\"" THEN <<"\\", "\"">> ELSE <<Head(s)>>) \o JsonEscape(Tail(s))

JsonStringify(s) == <<"\"">> \o JsonEscape(s) \o <<"\"">>

\* a value is truthy when it is neither undefined, null nor the empty string
Truthy(v) == v # Undefined /\ v # Null /\ v # <<>>

(***************************************************************************)
(* Pure functions of the middleware module                                 *)
(***************************************************************************)
\* getDomComponentVirtualProxy(generatedEntry, filePath)
getDomComponentVirtualProxy(generatedEntry, filePath) ==
  LET rel == PathRelative(PathDirname(generatedEntry), filePath)
      relativeFilePath == IF ~StartsWith(rel, <<".">>) THEN <<".", "/">> \o rel ELSE rel
      stringifiedFilePath == JsonStringify(relativeFilePath)
  IN [filePath |-> generatedEntry,
      contents |->
        <<"\n// Entry file for the web-side of a DOM Component.\nimport { registerDOMComponent } from 'expo/dom/internal';\n\nregisterDOMComponent(() => import(">>
        \o stringifiedFilePath \o <<"), ">> \o stringifiedFilePath \o <<");\n">>]

\* getDomComponentHtml(src, { title }); the fixed text between the two
\* interpolations is abridged, each stretch of it one element
getDomComponentHtml(src, title) ==
  <<"\n<!DOCTYPE html>\n<html>\n    <head>\n        <meta charset=\"utf-8\" />...">>
  \o (IF Truthy(title) THEN <<"<title>">> \o title \o <<"</title>">> ELSE <<>>)
  \o <<"<style id=\"expo-dom-component-style\">...</style>\n    </head>\n    <body>...<div id=\"root\"></div>">>
  \o (IF Truthy(src) THEN <<"<script crossorigin src=\"">> \o src \o <<"\"></script>">> ELSE <<>>)
  \o <<"\n    </body>\n</html>">>

\* the keys of ExpoMetroOptions whose values are booleans
BooleanOptions == {"bytecode", "isDOM", "lazy", "isExporting", "minify"}

\* the text of one option in a bundle URL
OptionText(options, k) ==
  IF k \notin DOMAIN options THEN <<>>
  ELSE IF k \in BooleanOptions
    THEN <<"&", k, "=", IF options[k] THEN "true" ELSE "false">>
  ELSE <<"&", k, "=", options[k]>>

\* createBundleUrlPath(options) of ./metroOptions: the path and query of the
\* bundle request for the entry module, carrying the bundler options
createBundleUrlPath(options) ==
  <<"/">> \o options.mainModuleName \o <<".bundle?">>
  \o OptionText(options, "platform") \o OptionText(options, "mode")
  \o OptionText(options, "minify") \o OptionText(options, "lazy")
  \o OptionText(options, "engine") \o OptionText(options, "bytecode")
  \o OptionText(options, "isDOM") \o OptionText(options, "isExporting")

\* the characters the URL serialiser escapes in a path and in a query
RECURSIVE UrlSerialize(_)
UrlSerialize(s) ==
  IF Len(s) = 0 THEN <<>>
  ELSE (IF Head(s) \in {" ", "\""} THEN EscapeOf(Head(s)) ELSE <<Head(s)>>)
       \o UrlSerialize(Tail(s))

\* the origin of an http URL: the URL up to the "/" that starts its path
Origin(base) ==
  LET rest == Slice(base, Len(HttpScheme))
      i == IndexOf(rest, "/")
  IN IF i = 0 THEN base ELSE SubSeq(base, 1, Len(HttpScheme) + i - 1)

\* new URL(path, base).toString() for a path that starts with "/"
NewURL(path, base) == Origin(base) \o UrlSerialize(path)

(***************************************************************************)
(* Inputs                                                                  *)
(***************************************************************************)
\* /p/W.js
WidgetPath == <<"/", "p", "/", "W", ".", "j", "s">>
\* /p/s/a b.js
SpacedPath == <<"/", "p", "/", "s", "/", "a", " ", "b", ".", "j", "s">>

SourcePaths == {WidgetPath, SpacedPath}

\* /p/a#b.js
HashPath == <<"/", "p", "/", "a", "#", "b", ".", "j", "s">>
\* /p/.expo/@dom/.h.js
DotPath == <<"/", "p", "/">> \o ExpoDomDir \o <<"/", ".", "h", ".", "j", "s">>

\* ?file=
FileQuery == <<"?">> \o FileKey \o <<"=">>

\* the URL of the dev server, http://h:1/, as getDevServerUrl() returns it and
\* as require("react-native/Libraries/Core/Devtools/getDevServer")().url
DevServerUrl == HttpScheme \o <<"h", ":", "1", "/">>

\* mutant: the production hash is taken of the path, not of the file URL
SourceUriHashOfPath(isProduction, platform, filePath, outputKey) ==
  IF isProduction
  THEN LET hash == Hash(filePath) IN
       IF platform = "ios" THEN WwwBundle \o hash \o DotHtml
       ELSE AndroidAsset \o (WwwDir \o hash \o DotHtml)
  ELSE NewURL(DomPrefix \o <<"/">> \o PathBasename(filePath) \o FileQuery \o outputKey,
              DevServerUrl)

\* the value of source.uri in the proxy module (source lines 70-93); the
\* platform is ios or android when isProduction
SourceUri(isProduction, platform, filePath, outputKey) ==
  IF isProduction
  THEN LET hash == Hash(outputKey) IN
       IF platform = "ios" THEN WwwBundle \o hash \o DotHtml
       ELSE AndroidAsset \o (WwwDir \o hash \o DotHtml)
  ELSE NewURL(DomPrefix \o <<"/">> \o PathBasename(filePath) \o FileQuery \o outputKey,
              DevServerUrl)

\* the target of the HTTP request a client sends for a URL: its path and
\* query, without the origin and without the fragment
RequestTarget(uri) == WithoutFragment(coerceUrl(uri))

\* the request the app sends for the development source.uri of the file p
DevRequestUrl(p) == RequestTarget(SourceUri(FALSE, "ios", p, PathToFileURL(p)))

\* the URLs of the requests that reach the middleware
RequestUrls ==
  { Undefined,
    <<"/", "o", "/", "p">>,
    <<"/", "_", "e", "x", "p", "o">>,
    DomPrefix,
    DomPrefix \o FileQuery,
    DomPrefix \o FileQuery \o <<"x", ".", "j", "s">>,
    DomPrefix \o <<"?", "a", "=", "b", "&">> \o FileKey \o <<"=">> \o WidgetPath,
    DomPrefix \o <<"/", "W", ".", "j", "s">> \o FileQuery \o PathToFileURL(WidgetPath),
    HttpScheme \o <<"h">> \o DomPrefix \o FileQuery \o PathToFileURL(WidgetPath),
    DomPrefix \o FileQuery \o PathToFileURL(SpacedPath) }

\* the requests the app sends for the development source.uri of its files,
\* among them a file with "#" in its name and a dot-file in the entries'
\* directory
DevRequestUrls == {DevRequestUrl(p) : p \in SourcePaths \cup {HashPath, DotPath}}

\* the requests of the runs that are checked for progress: one that is passed
\* on, one with an invalid file, and two for the same file
FairRequestUrls ==
  { <<"/", "o", "/", "p">>,
    DomPrefix \o FileQuery \o <<"x", ".", "j", "s">>,
    DomPrefix \o <<"/", "W", ".", "j", "s">> \o FileQuery \o PathToFileURL(WidgetPath),
    HttpScheme \o <<"h">> \o DomPrefix \o FileQuery \o PathToFileURL(WidgetPath) }

\* the middleware instances: roots, dev server URL and base bundler options
Instances ==
  { [projectRoot |-> <<"/", "p">>, metroRoot |-> <<"/", "p">>,
     devServerUrl |-> DevServerUrl,
     instanceMetroOptions |->
       [mode |-> "development", minify |-> FALSE, isExporting |-> FALSE,
        engine |-> "hermes"]],
    [projectRoot |-> <<"/", "p">>, metroRoot |-> <<"/">>,
     devServerUrl |-> DevServerUrl,
     instanceMetroOptions |->
       [mode |-> "development", minify |-> FALSE, isExporting |-> TRUE,
        engine |-> "jsc", platform |-> "ios", bytecode |-> TRUE,
        isDOM |-> FALSE, lazy |-> FALSE,
        mainModuleName |-> <<"i", "n", "d", "e", "x">>]],
    [projectRoot |-> <<"/", "p">>, metroRoot |-> <<"/", "p">>,
     devServerUrl |-> DevServerUrl,
     instanceMetroOptions |->
       [mode |-> "production", minify |-> TRUE, isExporting |-> FALSE,
        engine |-> "hermes", platform |-> "android", lazy |-> FALSE]] }

(***************************************************************************)
(* State                                                                   *)
(***************************************************************************)
VARIABLES
  \* the dev server process
  instance,       \* the arguments createDomComponentsMiddleware was called with
  memoized,       \* TRUE once memoize() has cached the result of warnUnstable
  log,            \* the messages given to Log.warn, in order
  files,          \* the file system: path -> contents of the files that exist
  dirs,           \* the directories that exist
  pc,             \* per request: where its handler is
  req,            \* per request: req.url
  locals,         \* per request: the local variables of the suspended handler
  res,            \* per request: the response object
  nextCalls,      \* per request: the arguments of the calls of next
  bundleCalls,    \* per request: the arguments of the calls of createBundleUrlPath
  timers,         \* per request: the ms left on its setTimeout timer
  age,            \* per file: the ms since it first existed, up to SettlingMs
  effects,        \* per request: what its handler did outside itself, in order
  \* the Babel plugin
  caller,         \* what api.caller gave when the plugin was instantiated
  original,       \* the file handed to the Program visitor, as it was
  ast,            \* path.node of that file: directives and body
  metadata,       \* state.file.metadata of that file
  thrown          \* the error the visitor threw, or NoError

serverVars == <<instance, memoized, log, files, dirs, pc, req, locals, res,
                nextCalls, bundleCalls, timers, age, effects>>
pluginVars == <<caller, original, ast, metadata, thrown>>
vars == <<instance, memoized, log, files, dirs, pc, req, locals, res,
          nextCalls, bundleCalls, timers, age, effects,
          caller, original, ast, metadata, thrown>>

\* a response nothing was written to (http.ServerResponse after construction)
FreshResponse ==
  [statusCode |-> 200, statusMessage |-> Undefined, headers |-> <<>>,
   body |-> Undefined, ended |-> 0]

NoLocals == [file |-> Undefined]

\* the warning of warnUnstable
UnstableWarning ==
  "Using experimental DOM Components API. Production exports may not work as expected."

NoError == <<>>
NotLoaded == [loaded |-> FALSE]
NoFile == [given |-> FALSE]

\* the dev server after createDomComponentsMiddleware(...) returned a handler;
\* no Babel plugin is loaded in this process
InitServer ==
  /\ instance \in Instances
  /\ memoized = FALSE
  /\ log = <<>>
  /\ files = <<>>
  /\ dirs = {<<"/">>, <<"/", "p">>}
  /\ pc = [r \in Requests |-> "idle"]
  /\ req = [r \in Requests |-> Undefined]
  /\ locals = [r \in Requests |-> NoLocals]
  /\ res = [r \in Requests |-> FreshResponse]
  /\ nextCalls = [r \in Requests |-> <<>>]
  /\ bundleCalls = [r \in Requests |-> <<>>]
  /\ timers = [r \in Requests |-> 0]
  /\ age = <<>>
  /\ effects = [r \in Requests |-> <<>>]

InitNoPlugin ==
  /\ caller = NotLoaded
  /\ original = NoFile
  /\ ast = NoFile
  /\ metadata = NoFile
  /\ thrown = NoError

(***************************************************************************)
(* The middleware                                                          *)
(***************************************************************************)
\* fileExistsAsync(path) of utils/dir, at the moment it looks
fileExistsAsync(path) == path \in DOMAIN files

\* the directory path and all its ancestors: fs.mkdirSync(.., {recursive: true})
RECURSIVE Ancestors(_)
Ancestors(dir) ==
  IF dir = <<"/">> \/ dir = <<".">> THEN {dir}
  ELSE {dir} \cup Ancestors(PathDirname(dir))

\* mutant: the warning is logged at every call
warnUnstableEveryCall == Append(log, UnstableWarning)

\* the log after warnUnstable(): memoize calls Log.warn at the first call only
\* (source lines 14-16, 69)
warnUnstable == IF memoized THEN log ELSE Append(log, UnstableWarning)

\* mutant: one request at a time looks at an entry path
AwaitingExistsExclusive(r) ==
  /\ pc[r] = "fileExistsAsync"
  /\ \A q \in Requests \ {r} :
       pc[q] \in {"writeFile", "setTimeout"}
         => locals[q].generatedEntry # locals[r].generatedEntry

\* the handler of r is suspended at await fileExistsAsync(..) (source line 37)
AwaitingExists(r) == pc[r] = "fileExistsAsync"

\* mutant: the handler waits when the file was there
NeedsSettlingInverted(r) == locals[r].exists

\* if (!exists) (source line 41)
NeedsSettling(r) == ~locals[r].exists

\* mutant: the timer never runs out
TimerDueNever(r) == FALSE

\* the timer of r has run its 1000 ms (source line 44)
TimerDue(r) == timers[r] = 0

\* mutant: writeFile that drops the other files
writeFileOnly(path, contents) == [f \in {path} |-> contents]

\* mutant: every path is taken for a DOM component request
IsDomRequestAnyPath(u) == StartsWith(Pathname(u), <<"/">>)

\* mutant: the scheme of the file parameter is not checked
IsFileUrlAnyScheme(file) == Truthy(file)

\* mutant: writeFile that leaves the file system as it is
writeFileNothing(path, contents) == files

\* url.pathname.startsWith('/_expo/@dom') (source line 57)
IsDomRequest(u) == StartsWith(Pathname(u), DomPrefix)

\* the negation of !file || !file.startsWith('file://') (source line 63)
IsFileUrl(file) == Truthy(file) /\ StartsWith(file, FileScheme)

\* the file system after fs.promises.writeFile(path, contents)
writeFile(path, contents) == Spread(files, [f \in {path} |-> contents])

\* what getDomComponentVirtualEntryModuleAsync(file) computes before its
\* first await (source lines 27-33)
EntryOf(file) ==
  LET filePath == IF StartsWith(file, FileScheme) THEN FileURLToFilePath(file) ELSE file
      hash == Hash(filePath)
      generatedEntry == PathJoin(instance.projectRoot, ExpoDomDir, hash \o DotJs)
  IN [file |-> file, filePath |-> filePath, hash |-> hash,
      generatedEntry |-> generatedEntry,
      entryFile |-> getDomComponentVirtualProxy(generatedEntry, filePath)]

\* mutant: the base configuration is spread after the forced options
BundleOptionsBaseLast(generatedEntry) ==
  Spread([isDOM |-> TRUE,
          mainModuleName |-> PathRelative(instance.metroRoot, generatedEntry),
          bytecode |-> FALSE,
          platform |-> "web",
          isExporting |-> FALSE,
          engine |-> "hermes",
          lazy |-> TRUE],
         instance.instanceMetroOptions)

\* mutant: the base configuration is not spread at all
BundleOptionsNoBase(generatedEntry) ==
  [isDOM |-> TRUE,
   mainModuleName |-> PathRelative(instance.metroRoot, generatedEntry),
   bytecode |-> FALSE,
   platform |-> "web",
   isExporting |-> FALSE,
   engine |-> "hermes",
   lazy |-> TRUE]

\* the options the handler passes to createBundleUrlPath (source lines 76-86)
BundleOptions(generatedEntry) ==
  Spread(instance.instanceMetroOptions,
         [isDOM |-> TRUE,
          mainModuleName |-> PathRelative(instance.metroRoot, generatedEntry),
          bytecode |-> FALSE,
          platform |-> "web",
          isExporting |-> FALSE,
          engine |-> "hermes",
          lazy |-> TRUE])

\* the handler from the return of getDomComponentVirtualEntryModuleAsync to
\* its end (source lines 72-98)
Respond(r) ==
  LET generatedEntry == locals[r].generatedEntry
      options == BundleOptions(generatedEntry)
      metroUrl == NewURL(createBundleUrlPath(options), instance.devServerUrl)
  IN /\ bundleCalls' = [bundleCalls EXCEPT ![r] = Append(@, options)]
     /\ res' = [res EXCEPT ![r] =
          [@ EXCEPT !.statusCode = 200,
                    !.headers = Spread(@, [h \in {"Content-Type"} |-> "text/html"]),
                    !.body = getDomComponentHtml(metroUrl, PathBasename(locals[r].file)),
                    !.ended = @ + 1]]
     /\ pc' = [pc EXCEPT ![r] = "done"]

\* the handler is called with a request: it runs to its first await or to
\* its return (source lines 50-72 and 27-37)
Handler(r, url) ==
  /\ pc[r] = "idle"
  /\ req' = [req EXCEPT ![r] = url]
  /\ IF url = Undefined \/ url = <<>>
     THEN \* if (!req.url) return next();
          /\ nextCalls' = [nextCalls EXCEPT ![r] = Append(@, Undefined)]
          /\ pc' = [pc EXCEPT ![r] = "done"]
          /\ UNCHANGED <<memoized, log, dirs, locals, res, effects>>
     ELSE LET u == coerceUrl(url)
              file == SearchParamsGet(u, FileKey)
          IN IF ~IsDomRequest(u)
             THEN /\ nextCalls' = [nextCalls EXCEPT ![r] = Append(@, Undefined)]
                  /\ pc' = [pc EXCEPT ![r] = "done"]
                  /\ UNCHANGED <<memoized, log, dirs, locals, res, effects>>
             ELSE IF ~IsFileUrl(file)
             THEN /\ res' = [res EXCEPT ![r] =
                       [@ EXCEPT !.statusCode = 400,
                                 !.statusMessage = InvalidFilePath \o ToStr(file),
                                 !.ended = @ + 1]]
                  /\ pc' = [pc EXCEPT ![r] = "done"]
                  /\ UNCHANGED <<memoized, log, dirs, locals, nextCalls, effects>>
             ELSE \* warnUnstable(), then the entry generator up to its first await
                  /\ memoized' = TRUE
                  /\ log' = warnUnstable
                  /\ effects' = [effects EXCEPT ![r] =
                       (IF warnUnstable # log THEN <<"Log.warn">> ELSE <<>>)
                       \o <<"mkdirSync">>]
                  /\ locals' = [locals EXCEPT ![r] = EntryOf(file)]
                  /\ dirs' = dirs \cup Ancestors(PathDirname(EntryOf(file).entryFile.filePath))
                  /\ pc' = [pc EXCEPT ![r] = "fileExistsAsync"]
                  /\ UNCHANGED <<res, nextCalls>>
  /\ UNCHANGED <<instance, files, bundleCalls, timers, age, pluginVars>>

\* await fileExistsAsync(..) resolves; the handler goes on to writeFile
\* (source lines 37-39)
FileExistsResolved(r) ==
  /\ AwaitingExists(r)
  /\ locals' = [locals EXCEPT ![r] =
       Spread(@, [exists |-> fileExistsAsync(@.entryFile.filePath)])]
  /\ pc' = [pc EXCEPT ![r] = "writeFile"]
  /\ UNCHANGED <<instance, memoized, log, files, dirs, req, res, nextCalls,
                 bundleCalls, timers, age, effects, pluginVars>>

\* await fs.promises.writeFile(..) resolves: the file holds the contents; the
\* handler starts the timer, or returns the entry and responds
\* (source lines 39-47 and 72-98)
WriteFileResolved(r) ==
  /\ pc[r] = "writeFile"
  /\ files' = writeFile(locals[r].entryFile.filePath, locals[r].entryFile.contents)
  /\ age' = [f \in DOMAIN files' |-> IF f \in DOMAIN files THEN age[f] ELSE 0]
  /\ effects' = [effects EXCEPT ![r] = Append(@, "writeFile")]
  /\ IF NeedsSettling(r)
     THEN /\ pc' = [pc EXCEPT ![r] = "setTimeout"]
          /\ timers' = [timers EXCEPT ![r] = SettlingMs]
          /\ UNCHANGED <<res, bundleCalls>>
     ELSE /\ Respond(r)
          /\ UNCHANGED timers
  /\ UNCHANGED <<instance, memoized, log, dirs, req, locals, nextCalls, pluginVars>>

\* the 1000 ms timer fires; the handler returns the entry and responds
\* (source lines 44-47 and 72-98)
TimerFired(r) ==
  /\ pc[r] = "setTimeout"
  /\ TimerDue(r)
  /\ Respond(r)
  /\ UNCHANGED <<instance, memoized, log, files, dirs, req, locals, nextCalls,
                 timers, age, effects, pluginVars>>

\* time passes: every pending timer has TickMs less to run and every file is
\* TickMs older
Tick ==
  /\ \/ \E r \in Requests : pc[r] = "setTimeout" /\ timers[r] > 0
     \/ \E f \in DOMAIN age : age[f] < SettlingMs
  /\ timers' = [r \in Requests |->
       IF pc[r] = "setTimeout" /\ timers[r] > TickMs THEN timers[r] - TickMs ELSE 0]
  /\ age' = [f \in DOMAIN age |->
       IF age[f] + TickMs < SettlingMs THEN age[f] + TickMs ELSE SettlingMs]
  /\ UNCHANGED <<instance, memoized, log, files, dirs, pc, req, locals, res,
                 nextCalls, bundleCalls, effects, pluginVars>>

NextServer ==
  \/ \E r \in Requests : \E url \in RequestUrls : Handler(r, url)
  \/ \E r \in Requests : FileExistsResolved(r)
  \/ \E r \in Requests : WriteFileResolved(r)
  \/ \E r \in Requests : TimerFired(r)
  \/ Tick

Init == InitServer /\ InitNoPlugin

Next == NextServer

Spec == Init /\ [][Next]_vars

\* the dev server serving the requests of the app's proxy components
NextRoundTrip ==
  \/ \E r \in Requests : \E url \in DevRequestUrls : Handler(r, url)
  \/ \E r \in Requests : FileExistsResolved(r)
  \/ \E r \in Requests : WriteFileResolved(r)
  \/ \E r \in Requests : TimerFired(r)
  \/ Tick

SpecRoundTrip == Init /\ [][NextRoundTrip]_vars

\* the dev server under fair scheduling: the event loop runs every
\* continuation that is ready, I/O completes, time passes and timers fire
NextFair ==
  \/ \E r \in Requests : \E url \in FairRequestUrls : Handler(r, url)
  \/ \E r \in Requests : FileExistsResolved(r)
  \/ \E r \in Requests : WriteFileResolved(r)
  \/ \E r \in Requests : TimerFired(r)
  \/ Tick

\* the moves of the event loop that resume a suspended handler, as changes
\* of the handler's position: within NextFair they are the steps
\* FileExistsResolved(r), WriteFileResolved(r) and TimerFired(r)
FileExistsResumes(r) ==
  /\ AwaitingExists(r)
  /\ pc' = [pc EXCEPT ![r] = "writeFile"]

WriteFileResumes(r) ==
  /\ pc[r] = "writeFile"
  /\ pc' = [pc EXCEPT ![r] = IF NeedsSettling(r) THEN "setTimeout" ELSE "done"]

TimerResumes(r) ==
  /\ pc[r] = "setTimeout"
  /\ TimerDue(r)
  /\ pc' = [pc EXCEPT ![r] = "done"]

\* the event loop runs every promise that has resolved and every timer that
\* is due, and time passes
SpecFair ==
  /\ Init
  /\ [][NextFair]_vars
  /\ \A r \in Requests :
       /\ WF_pc(FileExistsResumes(r))
       /\ WF_pc(WriteFileResumes(r))
       /\ WF_pc(TimerResumes(r))
  /\ WF_vars(Tick)

(***************************************************************************)
(* The Babel plugin                                                        *)
(***************************************************************************)
\* caller.platform; "undefined" stands for a caller that names no platform
Platforms == {"ios", "android", "web", "windows", "undefined"}

Callers == [loaded : {TRUE}, platform : Platforms, isProduction : BOOLEAN]

\* the top-level statements of a module, by node type
Stmt(type) == [type |-> type]
ExportDefault == Stmt("ExportDefaultDeclaration")
ExportNamed == Stmt("ExportNamedDeclaration")
ExportAll == Stmt("ExportAllDeclaration")
Expression == Stmt("ExpressionStatement")

Bodies ==
  { <<>>, <<Expression>>, <<ExportDefault>>, <<ExportNamed>>,
    <<ExportDefault, ExportNamed>>, <<ExportNamed, ExportDefault>>,
    <<Expression, ExportDefault>>, <<ExportAll, ExportDefault>> }

DirectiveLists ==
  { <<>>, <<"use strict">>, <<"use dom">>, <<"use strict", "use dom">> }

\* state.file.opts.filename
Filenames == {Undefined} \cup SourcePaths

\* state.file.metadata: objects with their fields, and values that are not
\* objects
Object(fields) == [typeof |-> "object", isNull |-> FALSE, fields |-> fields]
Metadatas ==
  { Object(<<>>),
    Object([k \in {"expoDomComponentReference"} |-> PathToFileURL(<<"/", "o">>)]),
    [typeof |-> "object", isNull |-> TRUE, fields |-> <<>>],
    [typeof |-> "undefined", isNull |-> FALSE, fields |-> <<>>] }

\* the files Babel hands to the visitor
SourceFiles ==
  [given : {TRUE}, directives : DirectiveLists, body : Bodies,
   filename : Filenames, metadata : Metadatas]

\* the messages of the errors the visitor throws
NoFilenameError == <<"[Babel] Expected a filename to be set in the state">>
NamedExportError ==
  <<"Modules with the \"use dom\" directive only support a single default export.">>
NoDefaultExportError ==
  <<"The \"use dom\" directive requires a default export to be present in the file.">>
UnsupportedPlatformError(platform) ==
  <<"production \"use dom\" directive is not supported yet for platform: ", platform>>
MetadataError == <<"Expected Babel state.file.metadata to be an object">>

\* path.node.directives.some((directive) => directive.value.value === 'use dom')
hasUseDomDirective(directives) ==
  \E i \in 1..Len(directives) : directives[i] = "use dom"

\* mutant: only the first statement is looked at
HasNamedExportFirstOnly(body) == Len(body) > 0 /\ body[1] = ExportNamed

\* path.traverse({...}): the first named export in source order throws
HasNamedExport(body) == \E i \in 1..Len(body) : body[i] = ExportNamed
hasDefaultExport(body) == \E i \in 1..Len(body) : body[i] = ExportDefault

\* mutant: web is handled like the native platforms
IsNativeAlways(platform) == TRUE

\* the negation of platform === 'web' (source line 21)
IsNative(platform) == platform # "web"

\* assertExpoMetadata(metadata) returns
IsExpoMetadata(m) == m.typeof = "object" /\ ~m.isNull

\* the statements of the proxy module (source lines 66-100)
ProxyModule(uri) ==
  << [type |-> "ImportDeclaration", from |-> "react"],
     [type |-> "ImportDeclaration", from |-> "expo/dom/internal"],
     [type |-> "VariableDeclaration", id |-> "source", uri |-> uri],
     [type |-> "ExportDefaultDeclaration", component |-> "WebView", source |-> "source"] >>

\* Program(path, state): the visitor on one file (source lines 19-112)
Program(f) ==
  /\ caller.loaded
  /\ original' = f
  /\ LET platform == caller.platform
         filePath == f.filename
         start == [directives |-> f.directives, body |-> f.body]
     IN IF ~IsNative(platform)
        THEN /\ thrown' = NoError /\ ast' = start /\ metadata' = f.metadata
        ELSE IF ~Truthy(filePath)
        THEN /\ thrown' = NoFilenameError /\ ast' = start /\ metadata' = f.metadata
        ELSE IF ~hasUseDomDirective(f.directives)
        THEN /\ thrown' = NoError /\ ast' = start /\ metadata' = f.metadata
        ELSE IF HasNamedExport(f.body)
        THEN /\ thrown' = NamedExportError /\ ast' = start /\ metadata' = f.metadata
        ELSE IF ~hasDefaultExport(f.body)
        THEN /\ thrown' = NoDefaultExportError /\ ast' = start /\ metadata' = f.metadata
        ELSE IF caller.isProduction /\ platform \notin {"ios", "android"}
        THEN /\ thrown' = UnsupportedPlatformError(platform)
             /\ ast' = start /\ metadata' = f.metadata
        ELSE LET outputKey == PathToFileURL(filePath)
                 uri == SourceUri(caller.isProduction, platform, filePath, outputKey)
             IN /\ ast' = [directives |-> <<>>, body |-> ProxyModule(uri)]
                /\ IF IsExpoMetadata(f.metadata)
                   THEN /\ thrown' = NoError
                        /\ metadata' = [f.metadata EXCEPT !.fields =
                             Spread(@, [k \in {"expoDomComponentReference"} |-> outputKey])]
                   ELSE /\ thrown' = MetadataError
                        /\ metadata' = f.metadata
  /\ UNCHANGED <<caller, serverVars>>

\* a Babel worker with the plugin instantiated by expoUseDomDirectivePlugin(api);
\* no dev-server middleware runs in this process
InitPlugin ==
  /\ caller \in Callers
  /\ original = NoFile
  /\ ast = NoFile
  /\ metadata = NoFile
  /\ thrown = NoError

InitNoServer ==
  /\ instance = NotLoaded
  /\ memoized = FALSE
  /\ log = <<>>
  /\ files = <<>>
  /\ dirs = {}
  /\ pc = [r \in Requests |-> "idle"]
  /\ req = [r \in Requests |-> Undefined]
  /\ locals = [r \in Requests |-> NoLocals]
  /\ res = [r \in Requests |-> FreshResponse]
  /\ nextCalls = [r \in Requests |-> <<>>]
  /\ bundleCalls = [r \in Requests |-> <<>>]
  /\ timers = [r \in Requests |-> 0]
  /\ age = <<>>
  /\ effects = [r \in Requests |-> <<>>]

InitBabel == InitPlugin /\ InitNoServer

NextBabel == \E f \in SourceFiles : Program(f)

SpecBabel == InitBabel /\ [][NextBabel]_vars

(***************************************************************************)
(* Properties                                                              *)
(***************************************************************************)
\* the request r has been handed to the handler
Started(r) == pc[r] # "idle"

\* the file query parameter of a request URL, as the URL parser gives it
FileParamOf(url) == SearchParamsGet(coerceUrl(url), FileKey)
FileParam(r) == FileParamOf(req[r])

\* a request that is not for the middleware: no URL, or another path
IsPassThroughUrl(url) ==
  \/ url = Undefined
  \/ ~StartsWith(Pathname(coerceUrl(url)), <<"/", "_", "e", "x", "p", "o", "/", "@", "d", "o", "m">>)
IsPassThrough(r) == IsPassThroughUrl(req[r])

\* a request that is for the middleware and names no file:// URL
IsInvalidUrl(url) ==
  /\ ~IsPassThroughUrl(url)
  /\ \/ FileParamOf(url) = Null
     \/ Len(FileParamOf(url)) < 7
     \/ SubSeq(FileParamOf(url), 1, 7) # <<"f", "i", "l", "e", ":", "/", "/">>
IsInvalid(r) == IsInvalidUrl(req[r])

\* a request that is for the middleware and names a file:// URL
IsValid(r) == ~IsPassThrough(r) /\ ~IsInvalid(r)

\* the hash in the name of a file <hash>.<extension>
EmbeddedHash(path) ==
  LET name == PathBasename(path) IN SubSeq(name, 1, IndexOf(name, ".") - 1)

\* the entry path the claims expect for a file URL:
\* <projectRoot>/.expo/@dom/<hash of the file path>.js
ExpectedEntry(file) ==
  instance.projectRoot
  \o <<"/", ".", "e", "x", "p", "o", "/", "@", "d", "o", "m", "/">>
  \o Hash(FileURLToFilePath(file)) \o <<".", "j", "s">>

\* C1: for every path p, the hash in the entry path written for a request
\* with file = canonicalUrl(p) is the hash in the production URI of p, on ios
\* and on android.
C1_RoundTripIdentity ==
  \A r \in Requests : \A p \in SourcePaths :
    ( /\ pc[r] = "done"
      /\ IsValid(r)
      /\ FileParam(r) = PathToFileURL(p) )
    => /\ locals[r].generatedEntry \in DOMAIN files
       /\ \A platform \in {"ios", "android"} :
            EmbeddedHash(locals[r].generatedEntry)
              = EmbeddedHash(SourceUri(TRUE, platform, p, PathToFileURL(p)))

\* the file handed to the visitor has the directive, a filename, and the
\* platform is not web
IsDomModule ==
  /\ original.given
  /\ caller.platform # "web"
  /\ original.filename # Undefined
  /\ \E i \in 1..Len(original.directives) : original.directives[i] = "use dom"

OriginalHasDefault ==
  \E i \in 1..Len(original.body) : original.body[i].type = "ExportDefaultDeclaration"
OriginalHasNamed ==
  \E i \in 1..Len(original.body) : original.body[i].type = "ExportNamedDeclaration"

\* the build is one the plugin can make a source.uri for
SupportedBuild == ~caller.isProduction \/ caller.platform \in {"ios", "android"}

\* C2 as stated: a "use dom" module for a non-web platform with a filename
\* compiles if and only if it has a default export and no named export; a
\* named export gives the single-default-export error, no default export the
\* requires-a-default-export error.
C2_DirectiveValidationAsStated ==
  IsDomModule =>
    /\ (thrown = NoError) <=> (OriginalHasDefault /\ ~OriginalHasNamed)
    /\ OriginalHasNamed => thrown = NamedExportError
    /\ (~OriginalHasNamed /\ ~OriginalHasDefault) => thrown = NoDefaultExportError

\* C2 amended: the export errors are as stated, and the module compiles if
\* and only if it has a default export, no named export, the build is not a
\* production build for a platform other than ios and android, and the
\* compile metadata is an object.
C2_DirectiveValidation ==
  IsDomModule =>
    /\ (thrown = NoError) <=>
         ( /\ OriginalHasDefault /\ ~OriginalHasNamed
           /\ SupportedBuild
           /\ original.metadata.typeof = "object" /\ ~original.metadata.isNull )
    /\ OriginalHasNamed => thrown = NamedExportError
    /\ (~OriginalHasNamed /\ ~OriginalHasDefault) => thrown = NoDefaultExportError
    /\ thrown \in {NamedExportError, NoDefaultExportError} <=>
         ~(OriginalHasDefault /\ ~OriginalHasNamed)

C2_Witness ==
  /\ IsDomModule
  /\ original.body = <<ExportDefault, ExportNamed>>
  /\ thrown = NamedExportError

\* everything of the server but the request r's own pc, req and nextCalls
OthersUnchanged(r) ==
  /\ instance' = instance /\ memoized' = memoized /\ log' = log
  /\ files' = files /\ dirs' = dirs /\ locals' = locals /\ res' = res
  /\ bundleCalls' = bundleCalls
  /\ \A q \in Requests \ {r} :
       pc'[q] = pc[q] /\ req'[q] = req[q] /\ nextCalls'[q] = nextCalls[q]

\* C3: a request with no URL or with a path outside /_expo/@dom calls next
\* once, without an error, and nothing else changes: the response is as it
\* was, no file or directory is created or written, no warning is logged.
C3_PassThrough ==
  /\ [](\A r \in Requests : (Started(r) /\ IsPassThrough(r)) =>
          /\ pc[r] = "done"
          /\ nextCalls[r] = <<Undefined>>
          /\ res[r] = FreshResponse
          /\ bundleCalls[r] = <<>>)
  /\ [][\A r \in Requests :
          (~Started(r) /\ pc'[r] # "idle" /\ IsPassThroughUrl(req'[r])) => OthersUnchanged(r)]_vars

C3_Witness ==
  \E r \in Requests :
    /\ pc[r] = "done"
    /\ req[r] = <<"/", "o", "/", "p">>
    /\ nextCalls[r] = <<Undefined>>

\* the text of a value in a string concatenation
Echo(v) == IF v = Null THEN <<"n", "u", "l", "l">> ELSE v

\* C4: a request under /_expo/@dom whose file parameter is absent or is not a
\* file:// URL gets status 400 with the message "Invalid file path: <value>",
\* the response is ended, next is not called, and nothing changes on the
\* server: no file or directory, no timer, no warning.
C4_InvalidFile ==
  /\ [](\A r \in Requests : (Started(r) /\ IsInvalid(r)) =>
          /\ pc[r] = "done"
          /\ res[r] = [statusCode |-> 400,
                       statusMessage |-> <<"Invalid file path: ">> \o Echo(FileParam(r)),
                       headers |-> <<>>, body |-> Undefined, ended |-> 1]
          /\ nextCalls[r] = <<>>
          /\ bundleCalls[r] = <<>>)
  /\ [][\A r \in Requests :
          (~Started(r) /\ pc'[r] # "idle" /\ IsInvalidUrl(req'[r])) =>
            /\ instance' = instance /\ memoized' = memoized /\ log' = log
            /\ files' = files /\ dirs' = dirs /\ locals' = locals
            /\ bundleCalls' = bundleCalls /\ nextCalls' = nextCalls
            /\ \A q \in Requests \ {r} :
                 pc'[q] = pc[q] /\ req'[q] = req[q] /\ res'[q] = res[q]]_vars

C4_Witness ==
  \E r \in Requests :
    /\ pc[r] = "done"
    /\ FileParam(r) = <<"x", ".", "j", "s">>
    /\ res[r].statusCode = 400
    /\ res[r].ended = 1

\* the response of a handler that served the HTML shell for its file
Served(r) ==
  LET file == FileParam(r)
      entry == ExpectedEntry(file)
  IN /\ Len(bundleCalls[r]) = 1
     /\ bundleCalls[r][1].mainModuleName = PathRelative(instance.metroRoot, entry)
     /\ res[r] =
          [statusCode |-> 200, statusMessage |-> Undefined,
           headers |-> [h \in {"Content-Type"} |-> "text/html"],
           body |-> getDomComponentHtml(
                      NewURL(createBundleUrlPath(bundleCalls[r][1]), instance.devServerUrl),
                      PathBasename(file)),
           ended |-> 1]
     /\ nextCalls[r] = <<>>

\* the entry file of the request r's file is on disk with the registration
\* module of that file
EntryOnDisk(r) ==
  LET file == FileParam(r)
      entry == ExpectedEntry(file)
  IN /\ entry \in DOMAIN files
     /\ files[entry] = getDomComponentVirtualProxy(entry, FileURLToFilePath(file)).contents

\* C5: a request under /_expo/@dom with a file:// file parameter is answered
\* 200, Content-Type text/html, with the HTML shell whose script is the bundle
\* URL of the entry (mainModuleName relative to the module root) and whose
\* title is basename(file); when the response is ended the entry file exists
\* and holds the registration module; nothing is written to the response
\* before.
C5_Success ==
  \A r \in Requests : (Started(r) /\ IsValid(r)) =>
    IF pc[r] = "done"
    THEN Served(r) /\ EntryOnDisk(r)
    ELSE res[r] = FreshResponse /\ nextCalls[r] = <<>> /\ bundleCalls[r] = <<>>

C5_Witness ==
  \E r \in Requests :
    /\ pc[r] = "done"
    /\ FileParam(r) = PathToFileURL(WidgetPath)
    /\ res[r].statusCode = 200
    /\ res[r].ended = 1
    /\ Len(bundleCalls[r]) = 1

\* the module has the directive and passes the export validation
IsValidDomModule == IsDomModule /\ OriginalHasDefault /\ ~OriginalHasNamed

\* source.uri of the proxy module that replaced the body
ProxyUri == ast.body[3].uri

\* s holds t as a substring
Contains(s, t) ==
  \E i \in 1..(Len(s) - Len(t) + 1) : SubSeq(s, i, i + Len(t) - 1) = t

ForcedOptions == {"mainModuleName", "platform", "bytecode", "isDOM", "lazy"}

\* C7: whatever the base configuration sets, the options of the bundle URL
\* have platform web, bytecode off, isDOM on, lazy on, and mainModuleName the
\* entry's path relative to the module root.
C7_ForcedOptions ==
  \A r \in Requests : \A i \in 1..Len(bundleCalls[r]) :
    LET options == bundleCalls[r][i] IN
    /\ ForcedOptions \subseteq DOMAIN options
    /\ options.platform = "web"
    /\ options.bytecode = FALSE
    /\ options.isDOM = TRUE
    /\ options.lazy = TRUE
    /\ options.mainModuleName
         = PathRelative(instance.metroRoot, ExpectedEntry(FileParam(r)))

C7_Witness ==
  \E r \in Requests :
    /\ Len(bundleCalls[r]) = 1
    /\ ForcedOptions \subseteq DOMAIN instance.instanceMetroOptions
    /\ instance.instanceMetroOptions.platform = "ios"
    /\ instance.instanceMetroOptions.bytecode = TRUE
    /\ instance.instanceMetroOptions.lazy = FALSE

\* C8 as stated: every option but the five forced ones has the value of the
\* base configuration.
C8_InheritedOptionsAsStated ==
  \A r \in Requests : \A i \in 1..Len(bundleCalls[r]) :
    LET options == bundleCalls[r][i]
        base == instance.instanceMetroOptions
    IN \A k \in (DOMAIN options) \ ForcedOptions :
         k \in DOMAIN base /\ options[k] = base[k]

\* C8 amended: every option but the five forced ones, isExporting and engine
\* has the value of the base configuration, and every such option of the base
\* configuration is passed; isExporting is always false and engine always
\* hermes.
C8_InheritedOptions ==
  \A r \in Requests : \A i \in 1..Len(bundleCalls[r]) :
    LET options == bundleCalls[r][i]
        base == instance.instanceMetroOptions
        set == ForcedOptions \cup {"isExporting", "engine"}
    IN /\ \A k \in (DOMAIN options) \ set : k \in DOMAIN base /\ options[k] = base[k]
       /\ (DOMAIN base) \ set \subseteq DOMAIN options
       /\ options.isExporting = FALSE
       /\ options.engine = "hermes"

C8_Witness ==
  \E r \in Requests :
    /\ Len(bundleCalls[r]) = 1
    /\ instance.instanceMetroOptions.mode = "production"
    /\ bundleCalls[r][1].mode = "production"
    /\ bundleCalls[r][1].minify = TRUE

\* the visitor left the file as it was and threw nothing
NoOp ==
  /\ thrown = NoError
  /\ ast = [directives |-> original.directives, body |-> original.body]
  /\ metadata = original.metadata

\* C9: a module without the "use dom" directive, compiled for a non-web
\* platform, with or without a filename, raises no error and is left as it
\* was, body, directives and metadata.
C9_MissingDirectiveNoOp ==
  ( /\ original.given
    /\ caller.platform # "web"
    /\ \A i \in 1..Len(original.directives) : original.directives[i] # "use dom" )
  => NoOp

\* C10: on web, every module, in both build modes, raises no error and is
\* left as it was, body, directives and metadata.
C10_WebNoOp == (original.given /\ caller.platform = "web") => NoOp

C10_Witness ==
  /\ original.given
  /\ caller.platform = "web"
  /\ caller.isProduction
  /\ original.directives = <<"use dom">>
  /\ original.body = <<ExportNamed>>
  /\ original.filename = Undefined
  /\ thrown = NoError

\* the visitor replaced the module by the proxy module
Rewritten ==
  /\ original.given
  /\ ast # [directives |-> original.directives, body |-> original.body]

\* C11: expoDomComponentReference is set by the transformer if and only if
\* the module was rewritten into the proxy, and then it is the file URL of
\* the module's path; when the transformer does nothing or fails, the
\* metadata is untouched.
C11_MetadataContract ==
  original.given =>
    /\ Rewritten <=> metadata # original.metadata
    /\ Rewritten =>
         /\ metadata.typeof = "object"
         /\ "expoDomComponentReference" \in DOMAIN metadata.fields
         /\ metadata.fields["expoDomComponentReference"] = PathToFileURL(original.filename)
    /\ ~Rewritten => metadata = original.metadata

\* C12: for every file path p, the request for the development source.uri
\* the transformer builds for p is neither handed to next nor answered with
\* 400, and the entry generator resolves it to p: the entry module it
\* generates imports and registers p.
C12_DevRoundTrip ==
  \A r \in Requests : \A p \in SourcePaths \cup {HashPath} :
    (Started(r) /\ req[r] = DevRequestUrl(p)) =>
      /\ nextCalls[r] = <<>>
      /\ res[r].statusCode # 400
      /\ "filePath" \in DOMAIN locals[r]
      /\ locals[r].filePath = p
      /\ locals[r].entryFile.contents
           = getDomComponentVirtualProxy(locals[r].generatedEntry, p).contents

\* C13: the existence check comes first and leaves the disk alone; the write
\* comes next and always happens; the call then waits for the settling
\* interval if and only if fileExistsAsync found the path absent, and otherwise
\* returns at once; a call that waits returns only when the interval is over.
C13_SettlingCondition ==
  [][\A r \in Requests :
       /\ (pc[r] = "idle") => pc'[r] \in {"idle", "done", "fileExistsAsync"}
       /\ (pc[r] = "fileExistsAsync" /\ pc'[r] # "fileExistsAsync") =>
            /\ pc'[r] = "writeFile"
            /\ files' = files
            /\ locals'[r].exists = (locals[r].generatedEntry \in DOMAIN files)
       /\ (pc'[r] = "writeFile") => pc[r] \in {"fileExistsAsync", "writeFile"}
       /\ (pc[r] = "writeFile" /\ pc'[r] # "writeFile") =>
            /\ locals[r].generatedEntry \in DOMAIN files'
            /\ files'[locals[r].generatedEntry] = locals[r].entryFile.contents
            /\ (pc'[r] = "setTimeout") <=> ~locals[r].exists
            /\ (pc'[r] = "done") <=> locals[r].exists
            /\ (pc'[r] = "setTimeout") => timers'[r] = 1000
       /\ (pc'[r] = "setTimeout") => pc[r] \in {"writeFile", "setTimeout"}
       /\ (pc[r] = "setTimeout" /\ pc'[r] # "setTimeout") =>
            /\ pc'[r] = "done"
            /\ timers[r] = 0
       /\ (pc[r] = "setTimeout" /\ pc'[r] = "setTimeout") =>
            /\ timers'[r] <= timers[r]
            /\ (timers'[r] < timers[r]) =>
                 \A f \in DOMAIN age : age'[f] > age[f] \/ age'[f] = 1000
  ]_vars

\* one call is waiting because fileExistsAsync found the path absent, and
\* another call, which found the path present, has returned after its write
C13_Witness ==
  \E r, q \in Requests :
    /\ pc[r] = "setTimeout"
    /\ ~locals[r].exists
    /\ pc[q] = "done"
    /\ "exists" \in DOMAIN locals[q]
    /\ locals[q].exists
    /\ "writeFile" \in {effects[q][i] : i \in DOMAIN effects[q]}
    /\ res[q].ended = 1

\* C14: under any interleaving, a request that has ended its 200 response
\* answers for an entry file that has existed on disk for at least a full
\* settling interval (the age of a file never decreases).
C14_SettlingProtectsResponse ==
  \A r \in Requests :
    (res[r].ended = 1 /\ res[r].statusCode = 200) =>
      /\ locals[r].generatedEntry \in DOMAIN age
      /\ age[locals[r].generatedEntry] >= 1000

\* C15: no lock and no in-flight deduplication holds a request back: a
\* request waiting for its existence check can always take that step,
\* whatever the other requests for the same file are doing, and finds the
\* entry absent as long as no write has completed; every request that is
\* waiting for the settling interval found the entry absent and has written
\* it. So two requests can both find it absent, both write and both wait.
C15_UnguardedRace ==
  \A r \in Requests :
    /\ (pc[r] = "fileExistsAsync") => ENABLED FileExistsResolved(r)
    /\ (pc[r] = "fileExistsAsync" /\ locals[r].generatedEntry \notin DOMAIN files) =>
         ENABLED (FileExistsResolved(r) /\ ~locals'[r].exists)
    /\ (pc[r] = "setTimeout") =>
         /\ ~locals[r].exists
         /\ locals[r].generatedEntry \in DOMAIN files
         /\ "writeFile" \in {effects[r][i] : i \in DOMAIN effects[r]}

\* two requests for the same file both found the entry absent, both wrote
\* it and both are waiting for the settling interval
C15_Witness ==
  \E r, q \in Requests :
    /\ r # q
    /\ pc[r] = "setTimeout" /\ pc[q] = "setTimeout"
    /\ locals[r].file = locals[q].file
    /\ locals[r].generatedEntry = locals[q].generatedEntry
    /\ ~locals[r].exists /\ ~locals[q].exists
    /\ "writeFile" \in {effects[r][i] : i \in DOMAIN effects[r]}
    /\ "writeFile" \in {effects[q][i] : i \in DOMAIN effects[q]}
    /\ timers[r] > 0 /\ timers[q] > 0

\* the requests whose entry generator was called for the path f
WritersOf(f) ==
  {r \in Requests : "generatedEntry" \in DOMAIN locals[r] /\ locals[r].generatedEntry = f}

\* every entry file lies in <projectRoot>/.expo/@dom, was asked for by a
\* validated request, is named after the hash of one source file and holds
\* the registration module of that file; all the calls for a path are for the
\* same source file and write the same content
EntriesConsistent ==
  \A f \in DOMAIN files :
    /\ PathDirname(f) = instance.projectRoot \o <<"/">> \o ExpoDomDir
    /\ \E r \in WritersOf(f) :
         /\ IsValid(r)
         /\ "writeFile" \in {effects[r][i] : i \in DOMAIN effects[r]}
    /\ \A r \in WritersOf(f) :
         /\ f = PathDirname(f) \o <<"/">> \o Hash(locals[r].filePath) \o DotJs
         /\ files[f] = getDomComponentVirtualProxy(f, locals[r].filePath).contents
         /\ \A q \in WritersOf(f) :
              /\ locals[q].filePath = locals[r].filePath
              /\ locals[q].entryFile.contents = locals[r].entryFile.contents

\* C16: in every reachable state every entry file on disk holds exactly the
\* registration module of the one source file whose hash names it, all the
\* writers of a path write the same content, and no step removes an entry
\* file or changes the content of one.
C16_IdempotentOverwrite ==
  /\ []EntriesConsistent
  /\ [][/\ DOMAIN files \subseteq DOMAIN files'
        /\ \A f \in DOMAIN files : files'[f] = files[f]]_vars

\* an entry file on disk was written by two requests for the same source
\* file
C16_Witness ==
  \E f \in DOMAIN files :
    \E r, q \in WritersOf(f) :
      /\ r # q
      /\ "writeFile" \in {effects[r][i] : i \in DOMAIN effects[r]}
      /\ "writeFile" \in {effects[q][i] : i \in DOMAIN effects[q]}
      /\ files[f] = locals[r].entryFile.contents

\* the requests that logged the warning
Warned == {r \in Requests : "Log.warn" \in {effects[r][i] : i \in DOMAIN effects[r]}}

ImportPaths(contents) ==
  LET sep == CHOOSE i \in DOMAIN contents : contents[i] = "), "
      first == SubSeq(contents, 2, sep - 1)
      second == SubSeq(contents, sep + 1, Len(contents) - 1)
  IN <<SubSeq(first, 2, Len(first) - 1), SubSeq(second, 2, Len(second) - 1)>>

\* the path begins with ./ or with ../
IsImportRelative(path) ==
  \/ Len(path) >= 2 /\ SubSeq(path, 1, 2) = <<".", "/">>
  \/ Len(path) >= 3 /\ SubSeq(path, 1, 3) = <<".", ".", "/">>

\* C18: the path in the lazy import and in the registration call of every
\* generated entry module begins with ./ or ../, and the two are the same
\* string.
C18_ImportRelative ==
  \A r \in Requests :
    ("entryFile" \in DOMAIN locals[r]) =>
      LET paths == ImportPaths(locals[r].entryFile.contents)
      IN /\ IsImportRelative(paths[1])
         /\ IsImportRelative(paths[2])
         /\ paths[1] = paths[2]

\* C19: whenever the transformer raises a fatal error, the body and the
\* directive list of the module are as they were before the call and the
\* metadata is as it was.
C19_AllOrNothing ==
  (original.given /\ thrown # NoError) =>
    /\ ast.directives = original.directives
    /\ ast.body = original.body
    /\ metadata = original.metadata

\* the number of outcomes the request has reached: calls of next plus ends
\* of the response
Outcomes(r) == Len(nextCalls[r]) + res[r].ended

\* C20: with fair scheduling of the pending awaits and timers, every request
\* the handler was called with eventually completes; a completed request has
\* reached exactly one of: next called, a 400 response ended, a 200 response
\* ended; no request ever has two outcomes, and next is never called on a
\* request whose response was touched.
C20_ExactlyOneOutcome ==
  /\ \A r \in Requests : (pc[r] # "idle") ~> (pc[r] = "done")
  /\ [](\A r \in Requests :
          /\ Outcomes(r) <= 1
          /\ (pc[r] = "done") <=> (Outcomes(r) = 1)
          /\ (res[r].ended = 1) => res[r].statusCode \in {200, 400}
          /\ (nextCalls[r] # <<>>) =>
               /\ nextCalls[r] = <<Undefined>>
               /\ res[r] = FreshResponse)

\* one request has ended its 200 response after the settling delay while
\* another request was handed to next or answered with 400
C20_Witness ==
  \E r, q \in Requests :
    /\ r # q
    /\ pc[r] = "done" /\ pc[q] = "done"
    /\ res[r].ended = 1 /\ res[r].statusCode = 200
    /\ nextCalls[r] = <<>>
    /\ ~locals[r].exists
    /\ \/ nextCalls[q] = <<Undefined>>
       \/ res[q].ended = 1 /\ res[q].statusCode = 400

====
